---- MODULE Spec2Model ----
(***************************************************************************)
(* The dispatcher of the WebP conversion pipeline (JobService) as a state  *)
(* machine: the worker registry, the batch state and the result queue,     *)
(* driven by the threads calling the public API, the TCP server thread,    *)
(* the UDP heartbeat handler and the liveness monitor.  A `with            *)
(* self._lock` section is one atomic step; what a method does outside the  *)
(* lock is a step of its own.  Beside it: one worker process (its TCP      *)
(* server thread and its job loop), the loops that poll a shutdown event,  *)
(* the framing of a file sent over TCP and the extraction of a ZIP.        *)
(***************************************************************************)
EXTENDS Integers, Sequences, FiniteSets, TLC

\* ------------------------------------------------------------------ bounds
MaxEndpoints == 2   \* worker endpoints (host:port) that may register
MaxBatch == 2       \* new_batch is called at most this often in SpecResults
MaxSwitch == 1      \* and at most this often in Spec
MaxJobId == 1       \* job ids are 0..MaxJobId
MaxActive == 2      \* start_job is not called once this many ids are active
MaxQueue == 1       \* no message is handled once the queue is this long
MaxCompleted == 2   \* nor once this many results were counted in the batch
MaxTime == 1        \* the clock stops here
MaxCount == 1       \* set_job_count(0..MaxCount)
MaxAnswers == 2     \* SpecDeath handles no message once the queue is this long
NumCallers == 2     \* threads calling the public API in SpecResults
NumSchedulers == 1  \* threads calling new_batch and start_job in Spec
MaxWorkerBatch == 2 \* the worker is told of the batches 1..MaxWorkerBatch
MaxPending == 2     \* the worker gets no message once its queue is this long
MaxSent == 1        \* nor a new_job once it sent this many answers
NumVariants == 2    \* variants of one conversion (12 in convert.py)
MaxVersion == 2     \* headers claim the versions 1..MaxVersion
MaxPayload == 10    \* bytes of a file sent over TCP
MaxSegment == 4     \* bytes one sendall step or one recv moves
MaxEntries == 2     \* entries of a ZIP archive
MaxIter == 2        \* turns of a loop in a method of the dispatcher

\* Config.heartbeat_timeout; time is counted in units of it (10.0 s).
HeartbeatTimeout == 1

Endpoints == 1..MaxEndpoints
JobIds == 0..MaxJobId
Callers == 1..NumCallers
Schedulers == 1..NumSchedulers
NoId == -1          \* None: job_data without a "job_id"

VARIABLES
    workers,          \* self._workers: worker id -> WorkerState
    next_worker_id,   \* self._next_worker_id
    batch_id,         \* self._batch_id
    next_job_id,      \* self._next_job_id
    jobs,             \* self._jobs: job id -> JobState
    total_jobs,       \* self._total_jobs
    completed_jobs,   \* self._completed_jobs
    results,          \* the items of the Queue self._results refers to
    count_called,     \* history: set_job_count was called in this batch
    now,              \* time.time()
    caller,           \* the API threads: position and locals
    ret,              \* what the step just taken returned to its caller
    tcp,              \* the TCP server thread: position and locals
    received,         \* new_job messages a worker got and has not answered
    mon,              \* the liveness monitor thread: position and locals
    server,           \* the WorkerServer object of one worker process
    handler,          \* the worker's TCP server thread: position and locals
    loop,             \* the worker's job loop: position and locals
    outbox,           \* what the worker sent to the dispatcher
    threads,          \* the shutdown event and the loops that poll it
    wire,             \* one connection: the bytes sent and the receiver
    archive,          \* one call of extract_files
    lock              \* self._lock: its holder, and the rest of each
                      \* dispatcher thread's method

registry == <<workers, next_worker_id>>
batch == <<batch_id, next_job_id, total_jobs, completed_jobs, results,
           count_called>>
\* What no method of the dispatcher touches.  A `with self._lock` section
\* is one step of a method here, so these steps leave `lock` alone: who
\* holds the lock between the steps is looked at on its own.
apart == <<server, handler, loop, outbox, threads, wire, archive, lock>>
vars == <<workers, next_worker_id, batch_id, next_job_id, jobs, total_jobs,
          completed_jobs, results, count_called, now, caller, ret, tcp,
          received, mon, server, handler, loop, outbox, threads, wire,
          archive, lock>>

\* ----------------------------------------------------------- data classes
WorkerState(hp, t) ==
    [host_port |-> hp, last_heartbeat |-> t, status |-> "alive",
     active_jobs |-> <<>>]

JobState(j, b, hp) ==
    [job_id |-> j, batch_id |-> b, worker |-> hp, status |-> "running",
     error |-> "none"]

Result(type, b, j) == [type |-> type, batch_id |-> b, job_id |-> j]

NoResult == Result("none", NoId, NoId)

\* What a call returned: the method, the calling thread and the value.
Ret(op, c, v) == <<op, c, v>>
NoRet == Ret("none", 0, 0)

IdleCaller ==
    [pc |-> "idle", job_id |-> NoId, batch_id |-> NoId, host_port |-> 0,
     q |-> NoId, res |-> NoResult, workers |-> {}]

IdleTcp == [pc |-> "idle", res |-> NoResult, key |-> NoId, host_port |-> 0]

IdleMon ==
    [pc |-> "sleep", todo |-> <<>>, job_id |-> NoId, batch_id |-> NoId,
     host_port |-> 0]

NoJobs == [j \in {} |-> 0]

WorkerIds == DOMAIN workers

\* d[k] = v of a dict
Put(f, k, v) == [x \in (DOMAIN f) \cup {k} |-> IF x = k THEN v ELSE f[x]]

Contains(s, x) == \E i \in 1..Len(s) : s[i] = x

\* list.remove(x): the first occurrence only
Remove(s, x) ==
    LET i == CHOOSE n \in 1..Len(s) :
                 s[n] = x /\ \A m \in 1..(n - 1) : s[m] # x
    IN  SubSeq(s, 1, i - 1) \o SubSeq(s, i + 1, Len(s))

\* The WorkerServer after __init__.
IdleServer ==
    [batch_id |-> -1, job_queue |-> <<>>, new_batch |-> FALSE,
     shutdown |-> FALSE]

NoMsg == [type |-> "none", batch_id |-> NoId, job_id |-> NoId]

IdleHandler == [pc |-> "top", msg |-> NoMsg, seen |-> 0]

IdleLoop ==
    [pc |-> "top", msg |-> NoMsg, batch_id |-> NoId, i |-> 0, files |-> 0,
     stopped |-> FALSE]

\* The dispatcher's event and the loops polling an event, each at the top
\* of its `while not shutdown.is_set()`.
IdleThreads ==
    [shutdown_event |-> FALSE, tcp |-> "top", udp |-> "top",
     monitor |-> "top", heartbeat |-> "top"]

NoWire == [pc |-> "none"]

NoArchive == [pc |-> "none"]

\* threading.Lock(): nobody holds it, every thread is between two methods.
LockThreads == {"api", "tcp", "udp", "monitor"}
IdleLock == [holder |-> "none", todo |-> [t \in LockThreads |-> <<>>]]

\* ------------------------------------------------------------------- Init
InitWorker ==
    /\ server = IdleServer
    /\ handler = IdleHandler
    /\ loop = IdleLoop
    /\ outbox = {}

InitDispatcher ==
    /\ workers = [w \in {} |-> 0]
    /\ next_worker_id = 0
    /\ batch_id = 0
    /\ next_job_id = 0
    /\ jobs = NoJobs
    /\ total_jobs = 0
    /\ completed_jobs = 0
    /\ results = <<>>
    /\ count_called = FALSE
    /\ now = 0
    /\ caller = [c \in Callers |-> IdleCaller]
    /\ ret = NoRet
    /\ tcp = IdleTcp
    /\ received = {}
    /\ mon = IdleMon
    /\ threads = IdleThreads
    /\ lock = IdleLock

Init ==
    /\ InitDispatcher
    /\ InitWorker
    /\ wire = NoWire
    /\ archive = NoArchive

\* -------------------------------------------------------------- new_batch
\* A new_batch that kept the queue object of the batch before.
KeptQueue == results

\* self._results = Queue()
FreshQueue == <<>>

\* workers = [(w.host, w.port) for w in self._workers.values()]
Listed == {workers[w].host_port : w \in WorkerIds}

\* The lock section of new_batch; the broadcast follows outside the lock.
NewBatch(c) ==
    /\ caller[c].pc = "idle"
    /\ batch_id' = batch_id + 1
    /\ jobs' = NoJobs
    /\ next_job_id' = 0
    /\ total_jobs' = 0
    /\ completed_jobs' = 0
    /\ results' = FreshQueue
    /\ count_called' = FALSE
    /\ caller' = [caller EXCEPT ![c] =
                    [IdleCaller EXCEPT !.pc = "nb_send",
                                       !.batch_id = batch_id + 1,
                                       !.workers = Listed]]
    /\ ret' = NoRet
    /\ UNCHANGED <<apart, received, registry, now, tcp, mon>>

\* The best-effort broadcast to the workers listed under the lock, then
\* `return batch_id`, the local set under the lock.
NewBatchBroadcast(c) ==
    /\ caller[c].pc = "nb_send"
    /\ caller' = [caller EXCEPT ![c] = IdleCaller]
    /\ ret' = Ret("new_batch", c, caller[c].batch_id)
    /\ UNCHANGED <<apart, received, registry, jobs, batch, now, tcp, mon>>

\* ---------------------------------------------------------- set_job_count
SetJobCount(c, n) ==
    /\ caller[c].pc = "idle"
    /\ total_jobs' = n
    /\ count_called' = TRUE
    /\ ret' = NoRet
    /\ UNCHANGED <<apart, received, registry, jobs, batch_id, next_job_id, completed_jobs,
                   results, now, caller, tcp, mon>>

\* ------------------------------------------------------ is_batch_complete
\* The comparison without `self._total_jobs > 0`.
BatchCompleteAnyTotal == completed_jobs >= total_jobs

\* return self._total_jobs > 0 and self._completed_jobs >= self._total_jobs
BatchComplete == total_jobs > 0 /\ completed_jobs >= total_jobs

IsBatchComplete(c) ==
    /\ caller[c].pc = "idle"
    /\ ret' = Ret("is_batch_complete", c, BatchComplete)
    /\ UNCHANGED <<apart, received, registry, jobs, batch, now, caller, tcp, mon>>

\* -------------------------------------------------------------- start_job
\* The list without `if w.status == "alive"`: every registered worker.
RECURSIVE AliveFromAll(_)
AliveFromAll(i) ==
    IF i >= next_worker_id THEN <<>>
    ELSE << <<Len(workers[i].active_jobs), i>> >> \o AliveFromAll(i + 1)

\* alive = [(len(w.active_jobs), w_id) for w_id, w in self._workers.items()
\*          if w.status == "alive"], in the order of the dict, which is the
\* order of insertion and so of the worker ids.
RECURSIVE AliveFrom(_)
AliveFrom(i) ==
    IF i >= next_worker_id THEN <<>>
    ELSE (IF workers[i].status = "alive"
          THEN << <<Len(workers[i].active_jobs), i>> >>
          ELSE <<>>) \o AliveFrom(i + 1)

Alive == AliveFrom(0)

\* One insertion of a sort that is not stable: in front of the elements
\* of equal key.
InsertFront(s, x) ==
    LET n == Cardinality({i \in 1..Len(s) : s[i][1] < x[1]})
    IN  SubSeq(s, 1, n) \o <<x>> \o SubSeq(s, n + 1, Len(s))

\* One insertion of the stable sort: behind every element whose key is not
\* larger.
Insert(s, x) ==
    LET n == Cardinality({i \in 1..Len(s) : s[i][1] <= x[1]})
    IN  SubSeq(s, 1, n) \o <<x>> \o SubSeq(s, n + 1, Len(s))

\* alive.sort(key=lambda x: x[0])
RECURSIVE SortByLen(_)
SortByLen(s) ==
    IF s = <<>> THEN <<>>
    ELSE Insert(SortByLen(SubSeq(s, 1, Len(s) - 1)), s[Len(s)])

\* _, id = alive[0]
Chosen == SortByLen(Alive)[1][2]

\* job_id = job_data.get("job_id"); None draws the next id of the batch.
SJJobId(jin) == IF jin = NoId THEN next_job_id ELSE jin

\* The lock section of start_job for the job id `jin` of job_data; `ok`
\* tells whether an alive worker was found.
StartJobLocked(jin, ok) ==
    /\ next_job_id' = (IF jin = NoId THEN next_job_id + 1 ELSE next_job_id)
    /\ ok = (Alive # <<>>)
    /\ IF Alive = <<>>
       THEN UNCHANGED <<workers, jobs>>
       ELSE /\ workers' = [workers EXCEPT ![Chosen].active_jobs =
                                            Append(@, SJJobId(jin))]
            /\ jobs' = Put(jobs, SJJobId(jin),
                           JobState(SJJobId(jin), batch_id,
                                    workers[Chosen].host_port))
    /\ UNCHANGED <<next_worker_id, batch_id, total_jobs, completed_jobs,
                   results, count_called, now>>

\* start_job(job_data) of a caller, up to the end of the lock section.
StartJob(c, jin) ==
    /\ caller[c].pc = "idle"
    /\ \E ok \in BOOLEAN :
        /\ StartJobLocked(jin, ok)
        /\ caller' = [caller EXCEPT ![c] =
                        IF ok
                        THEN [IdleCaller EXCEPT !.pc = "sj_send",
                                 !.job_id = SJJobId(jin),
                                 !.batch_id = batch_id,
                                 !.host_port = workers[Chosen].host_port]
                        ELSE IdleCaller]
        /\ ret' = IF ok THEN NoRet ELSE Ret("start_job", c, FALSE)
    /\ UNCHANGED <<apart, received, tcp, mon>>

\* The worker listening at the endpoint `hp`.
WorkerAt(hp) == CHOOSE w \in WorkerIds : workers[w].host_port = hp

\* The new_job message start_job sends from the locals `l`, as the worker
\* at (host, port) gets it.
NewJob(l) ==
    [worker_id |-> WorkerAt(l.host_port), batch_id |-> l.batch_id,
     job_id |-> l.job_id]

\* What start_job returns after the send: True at the end of the try
\* block, False from `except Exception`.
SendReturn(sent) == sent

\* A send that takes the job from the worker again when it fails.
StartJobSendUndo(c, sent) ==
    /\ caller[c].pc = "sj_send"
    /\ received' = IF sent THEN received \cup {NewJob(caller[c])}
                   ELSE received
    /\ workers' = IF sent THEN workers
                  ELSE [w \in WorkerIds |->
                          IF workers[w].host_port = caller[c].host_port
                             /\ Contains(workers[w].active_jobs,
                                         caller[c].job_id)
                          THEN [workers[w] EXCEPT !.active_jobs =
                                   Remove(@, caller[c].job_id)]
                          ELSE workers[w]]
    /\ caller' = [caller EXCEPT ![c] = IdleCaller]
    /\ ret' = Ret("start_job", c, SendReturn(sent))
    /\ UNCHANGED <<apart, next_worker_id, jobs, batch, now, tcp, mon>>

\* send_file_tcp outside the lock; it succeeds or raises.
StartJobSend(c, sent) ==
    /\ caller[c].pc = "sj_send"
    /\ received' = IF sent THEN received \cup {NewJob(caller[c])}
                   ELSE received
    /\ caller' = [caller EXCEPT ![c] = IdleCaller]
    /\ ret' = Ret("start_job", c, SendReturn(sent))
    /\ UNCHANGED <<apart, registry, jobs, batch, now, tcp, mon>>

\* -------------------------------------------------------- get_next_result
\* if self.is_batch_complete(): return None
GetNextResult(c) ==
    /\ caller[c].pc = "idle"
    /\ caller' = [caller EXCEPT ![c] =
                    IF BatchComplete THEN IdleCaller
                    ELSE [IdleCaller EXCEPT !.pc = "gnr_get"]]
    /\ ret' = IF BatchComplete THEN Ret("get_next_result", c, NoResult)
              ELSE NoRet
    /\ UNCHANGED <<apart, received, registry, jobs, batch, now, tcp, mon>>

\* self._results.get(timeout): the queue self._results refers to now has an
\* item, which is taken.
GetTake(c) ==
    /\ caller[c].pc = "gnr_get"
    /\ results # <<>>
    /\ results' = Tail(results)
    /\ caller' = [caller EXCEPT ![c] =
                    [IdleCaller EXCEPT !.pc = "gnr_inc",
                                       !.res = Head(results)]]
    /\ ret' = NoRet
    /\ UNCHANGED <<apart, received, registry, jobs, batch_id, next_job_id, total_jobs,
                   completed_jobs, count_called, now, tcp, mon>>

\* The queue is empty: the thread waits on this Queue object.  new_batch
\* makes a new object, so an object is known by the batch it was made in.
GetWait(c) ==
    /\ caller[c].pc = "gnr_get"
    /\ results = <<>>
    /\ caller' = [caller EXCEPT ![c] =
                    [IdleCaller EXCEPT !.pc = "gnr_wait", !.q = batch_id]]
    /\ ret' = NoRet
    /\ UNCHANGED <<apart, received, registry, jobs, batch, now, tcp, mon>>

\* An item was put on the queue the thread waits on.
GetWake(c) ==
    /\ caller[c].pc = "gnr_wait"
    /\ caller[c].q = batch_id
    /\ results # <<>>
    /\ results' = Tail(results)
    /\ caller' = [caller EXCEPT ![c] =
                    [IdleCaller EXCEPT !.pc = "gnr_inc",
                                       !.res = Head(results)]]
    /\ ret' = NoRet
    /\ UNCHANGED <<apart, received, registry, jobs, batch_id, next_job_id, total_jobs,
                   completed_jobs, count_called, now, tcp, mon>>

\* except Empty: return None.  Nothing is ever put on a replaced queue.
GetTimeout(c) ==
    /\ caller[c].pc = "gnr_wait"
    /\ caller[c].q # batch_id \/ results = <<>>
    /\ caller' = [caller EXCEPT ![c] = IdleCaller]
    /\ ret' = Ret("get_next_result", c, NoResult)
    /\ UNCHANGED <<apart, received, registry, jobs, batch, now, tcp, mon>>

\* with self._lock: self._completed_jobs += 1; then return result
GetCount(c) ==
    /\ caller[c].pc = "gnr_inc"
    /\ completed_jobs' = completed_jobs + 1
    /\ caller' = [caller EXCEPT ![c] = IdleCaller]
    /\ ret' = Ret("get_next_result", c, caller[c].res)
    /\ UNCHANGED <<apart, received, registry, jobs, batch_id, next_job_id, total_jobs,
                   results, count_called, now, tcp, mon>>

\* ------------------------------------------------------- TCP server thread
\* tcp_server handles one connection at a time and calls the handler on
\* the thread that accepted the connection.

\* A search that passes over the records of dead workers.
RegisteredAlive(hp) ==
    \E w \in WorkerIds :
        workers[w].host_port = hp /\ workers[w].status = "alive"

\* for w in self._workers.values():
\*     if w.host == host and w.port == port: return
Registered(hp) == \E w \in WorkerIds : workers[w].host_port = hp

\* _register_worker: the lock section for the endpoint `hp`.
RegisterWorker(hp) ==
    /\ tcp.pc = "idle"
    /\ IF Registered(hp)
       THEN UNCHANGED <<workers, next_worker_id, tcp>>
       ELSE /\ workers' = Put(workers, next_worker_id, WorkerState(hp, now))
            /\ next_worker_id' = next_worker_id + 1
            /\ tcp' = [IdleTcp EXCEPT !.pc = "ack", !.key = next_worker_id,
                                      !.host_port = hp]
    /\ ret' = NoRet
    /\ UNCHANGED <<apart, received, jobs, batch, now, caller, mon>>

\* send_tcp(host, port, {"type": "ack", "id": key}) outside the lock.
SendAck ==
    /\ tcp.pc = "ack"
    /\ tcp' = IdleTcp
    /\ ret' = NoRet
    /\ UNCHANGED <<apart, received, registry, jobs, batch, now, caller, mon>>

\* A handler without the batch check.
StaleNever(b) == FALSE

\* if batch_id != self._batch_id: return
Stale(b) == b # batch_id

\* A handler that leaves the status of the job as it is.
CompletedUnmarked(job) == job

\* job.status = "done"
Completed(job) == [job EXCEPT !.status = "done"]

\* _handle_job_complete: the lock section for images_ready{b, j, w}; a
\* message without worker_id has w = -1.
HandleJobComplete(b, j, w) ==
    /\ tcp.pc = "idle"
    /\ IF Stale(b) \/ w = -1 \/ w \notin WorkerIds
       THEN UNCHANGED <<workers, jobs, tcp>>
       ELSE /\ jobs' = IF j \in DOMAIN jobs
                       THEN [jobs EXCEPT ![j] = Completed(@)]
                       ELSE jobs
            /\ workers' = IF Contains(workers[w].active_jobs, j)
                          THEN [workers EXCEPT ![w].active_jobs =
                                                  Remove(@, j)]
                          ELSE workers
            /\ tcp' = [IdleTcp EXCEPT !.pc = "put",
                                      !.res = Result("images", b, j)]
    /\ ret' = NoRet
    /\ UNCHANGED <<apart, next_worker_id, batch, now, caller, mon>>

\* _handle_job_error: the lock section for job_error{b, j}.
HandleJobError(b, j) ==
    /\ tcp.pc = "idle"
    /\ IF Stale(b)
       THEN UNCHANGED <<jobs, tcp>>
       ELSE /\ jobs' = IF j \in DOMAIN jobs
                       THEN [jobs EXCEPT ![j].status = "error",
                                         ![j].error = "err"]
                       ELSE jobs
            /\ tcp' = [IdleTcp EXCEPT !.pc = "put",
                                      !.res = Result("job_error", b, j)]
    /\ ret' = NoRet
    /\ UNCHANGED <<apart, registry, batch, now, caller, mon>>

\* self._results.put(..) outside the lock, on the queue self._results
\* refers to when the put runs.
PutResult ==
    /\ tcp.pc = "put"
    /\ results' = Append(results, tcp.res)
    /\ tcp' = IdleTcp
    /\ ret' = NoRet
    /\ UNCHANGED <<apart, received, registry, jobs, batch_id, next_job_id, total_jobs,
                   completed_jobs, count_called, now, caller, mon>>

\* ------------------------------------------------------- UDP server thread
\* A handler that takes the heartbeat of a dead worker as its return.
HandleHeartbeatRevive(w, t) ==
    /\ workers' = IF w \in WorkerIds
                  THEN [workers EXCEPT ![w].last_heartbeat = t,
                                       ![w].status = "alive"]
                  ELSE workers
    /\ ret' = NoRet
    /\ UNCHANGED <<apart, received, next_worker_id, jobs, batch, now, caller, tcp, mon>>

\* A handler with `if worker:` alone, which takes the heartbeat of a dead
\* worker too.
HandleHeartbeatAnyStatus(w, t) ==
    /\ workers' = IF w \in WorkerIds
                  THEN [workers EXCEPT ![w].last_heartbeat = t]
                  ELSE workers
    /\ ret' = NoRet
    /\ UNCHANGED <<apart, received, next_worker_id, jobs, batch, now, caller, tcp, mon>>

\* _handle_heartbeat for heartbeat{worker_id: w, time: t}.
HandleHeartbeat(w, t) ==
    /\ workers' = IF w \in WorkerIds /\ workers[w].status = "alive"
                  THEN [workers EXCEPT ![w].last_heartbeat = t]
                  ELSE workers
    /\ ret' = NoRet
    /\ UNCHANGED <<apart, received, next_worker_id, jobs, batch, now, caller, tcp, mon>>

\* ------------------------------------------------------- liveness monitor
\* The comparison with `>` for `>=`.
TimedOutLate(w) ==
    /\ workers[w].status # "dead"
    /\ now - workers[w].last_heartbeat > HeartbeatTimeout

\* if worker.status == "dead": continue
\* if now - worker.last_heartbeat >= self._config.heartbeat_timeout:
TimedOut(w) ==
    /\ workers[w].status # "dead"
    /\ now - workers[w].last_heartbeat >= HeartbeatTimeout

\* The loop over worker.active_jobs after worker.active_jobs.clear().
RunningCleared(active) == <<>>

\* The job_dicts one timed-out worker adds to jobs_to_reassign.
RECURSIVE Running(_)
Running(active) ==
    IF active = <<>> THEN <<>>
    ELSE (IF Head(active) \in DOMAIN jobs
             /\ jobs[Head(active)].status = "running"
          THEN <<[job_id |-> jobs[Head(active)].job_id,
                  batch_id |-> jobs[Head(active)].batch_id]>>
          ELSE <<>>) \o Running(Tail(active))

\* jobs_to_reassign after the loop over self._workers.values()
RECURSIVE ToReassign(_)
ToReassign(i) ==
    IF i >= next_worker_id THEN <<>>
    ELSE (IF TimedOut(i) THEN Running(workers[i].active_jobs) ELSE <<>>)
         \o ToReassign(i + 1)

\* The monitor with `todo` left of jobs_to_reassign.
MonAt(todo) ==
    IF todo = <<>> THEN IdleMon
    ELSE [IdleMon EXCEPT !.pc = "reassign", !.todo = todo]

\* One pass of _monitor_heartbeats after the sleep: the lock section.
MonitorPass ==
    /\ mon.pc = "sleep"
    /\ workers' = [w \in WorkerIds |->
                     IF TimedOut(w)
                     THEN [workers[w] EXCEPT !.status = "dead",
                                             !.active_jobs = <<>>]
                     ELSE workers[w]]
    /\ mon' = MonAt(ToReassign(0))
    /\ ret' = NoRet
    /\ UNCHANGED <<apart, received, next_worker_id, jobs, batch, now, caller, tcp>>

\* for job_dict in jobs_to_reassign: what start_job returns is dropped and
\* the loop goes on with the rest.
AfterFailure(todo) == Tail(todo)

\* self.start_job(job_dict) of the monitor, up to the end of the lock
\* section.
MonitorStartJob ==
    /\ mon.pc = "reassign"
    /\ \E ok \in BOOLEAN :
        /\ StartJobLocked(Head(mon.todo).job_id, ok)
        /\ mon' = IF ok
                  THEN [mon EXCEPT !.pc = "mon_send",
                           !.job_id = Head(mon.todo).job_id,
                           !.batch_id = batch_id,
                           !.host_port = workers[Chosen].host_port]
                  ELSE MonAt(AfterFailure(mon.todo))
    /\ ret' = NoRet
    /\ UNCHANGED <<apart, received, caller, tcp>>

\* send_file_tcp of the monitor's start_job; the monitor drops what
\* start_job returns.
MonitorSend(sent) ==
    /\ mon.pc = "mon_send"
    /\ received' = IF sent THEN received \cup {NewJob(mon)} ELSE received
    /\ mon' = MonAt(Tail(mon.todo))
    /\ ret' = NoRet
    /\ UNCHANGED <<apart, registry, jobs, batch, now, caller, tcp>>

\* ------------------------------------------------------------------ clock
Tick ==
    /\ now' = now + 1
    /\ ret' = NoRet
    /\ UNCHANGED <<apart, received, registry, jobs, batch, caller, tcp, mon>>

\* --------------------------------------------------------- specifications
\* A worker answers a new_job it got with one images_ready or one
\* job_error, which carries the ids of the new_job and its own id.
ImagesReady(m) ==
    /\ HandleJobComplete(m.batch_id, m.job_id, m.worker_id)
    /\ received' = received \ {m}

JobError(m) ==
    /\ HandleJobError(m.batch_id, m.job_id)
    /\ received' = received \ {m}

RECURSIVE SumLen(_)
SumLen(i) ==
    IF i >= next_worker_id THEN 0
    ELSE Len(workers[i].active_jobs) + SumLen(i + 1)

\* The bounds on the calls and the messages a specification draws.
MayStart == SumLen(0) < MaxActive
MayAccept == Len(results) < MaxQueue /\ completed_jobs < MaxCompleted

\* Spec: the registry, dispatch and liveness.  API threads call new_batch
\* and start_job (with the job id of the request, as submit_job does)
\* beside the TCP server thread, the UDP handler, the liveness monitor and
\* the clock.  A heartbeat carries the time it was sent at.  Nothing takes
\* results here, so MaxQueue bounds the messages handled in a batch.
Next ==
    \/ \E c \in Schedulers : batch_id < MaxSwitch /\ NewBatch(c)
    \/ \E c \in Schedulers : NewBatchBroadcast(c)
    \/ \E c \in Schedulers, jin \in JobIds : MayStart /\ StartJob(c, jin)
    \/ \E c \in Schedulers, sent \in BOOLEAN : StartJobSend(c, sent)
    \/ \E hp \in Endpoints : RegisterWorker(hp)
    \/ SendAck
    \/ \E m \in received : MayAccept /\ ImagesReady(m)
    \/ \E m \in received : MayAccept /\ JobError(m)
    \/ PutResult
    \/ \E w \in 0..(MaxEndpoints - 1), t \in 0..now : HandleHeartbeat(w, t)
    \/ MonitorPass
    \/ MayStart /\ MonitorStartJob
    \/ \E sent \in BOOLEAN : MonitorSend(sent)
    \/ now < MaxTime /\ Tick

Spec == Init /\ [][Next]_vars

\* SpecResults: the batch state and the result queue.  API threads call
\* every method (start_job draws the job id) beside the TCP server
\* thread; one worker registers and never times out.
NextResults ==
    \/ \E c \in Callers : batch_id < MaxBatch /\ NewBatch(c)
    \/ \E c \in Callers : NewBatchBroadcast(c)
    \/ \E c \in Callers, n \in 0..MaxCount : SetJobCount(c, n)
    \/ \E c \in Callers : IsBatchComplete(c)
    \/ \E c \in Callers : GetNextResult(c)
    \/ \E c \in Callers : GetTake(c)
    \/ \E c \in Callers : GetWait(c)
    \/ \E c \in Callers : GetWake(c)
    \/ \E c \in Callers : GetTimeout(c)
    \/ \E c \in Callers : GetCount(c)
    \/ \E c \in Callers :
          MayStart /\ next_job_id <= MaxJobId /\ StartJob(c, NoId)
    \/ \E c \in Callers, sent \in BOOLEAN : StartJobSend(c, sent)
    \/ next_worker_id = 0 /\ RegisterWorker(1)
    \/ SendAck
    \/ \E m \in received : MayAccept /\ ImagesReady(m)
    \/ \E m \in received : MayAccept /\ JobError(m)
    \/ PutResult

SpecResults == Init /\ [][NextResults]_vars

\* SpecDeath: worker death within one batch.  A caller submits each job id
\* once; the workers answer with images_ready, also a worker the monitor
\* has marked dead, whose heartbeats were only late.  Nothing takes
\* results: the queue holds what get_next_result is going to return.
NextDeath ==
    \/ \E c \in Schedulers, jin \in JobIds :
          MayStart /\ jin \notin DOMAIN jobs /\ StartJob(c, jin)
    \/ \E c \in Schedulers, sent \in BOOLEAN : StartJobSend(c, sent)
    \/ \E hp \in Endpoints : RegisterWorker(hp)
    \/ SendAck
    \/ \E m \in received : Len(results) < MaxAnswers /\ ImagesReady(m)
    \/ PutResult
    \/ \E w \in 0..(MaxEndpoints - 1), t \in 0..now : HandleHeartbeat(w, t)
    \/ MonitorPass
    \/ MayStart /\ MonitorStartJob
    \/ \E sent \in BOOLEAN : MonitorSend(sent)
    \/ now < MaxTime /\ Tick

SpecDeath == Init /\ [][NextDeath]_vars

\* ------------------------------------------------------ the worker process
\* One WorkerServer: its TCP server thread, which runs _handle_message for
\* each message, and its job loop.  The variables of the dispatcher stand
\* still while the worker is looked at.
dispatcher ==
    <<workers, next_worker_id, batch_id, next_job_id, jobs, total_jobs,
      completed_jobs, results, count_called, now, caller, ret, tcp,
      received, mon, lock>>

WorkerBatches == 1..MaxWorkerBatch

Msg(type, b, j) == [type |-> type, batch_id |-> b, job_id |-> j]

\* A comparison that takes every batch id for the current one.
CurrentAny(b) == TRUE

\* msg.get("batch_id") == self._batch_id
Current(b) == b = server.batch_id

\* tcp_server: `while not shutdown_event.is_set()`.
WListen ==
    /\ handler.pc = "top"
    /\ handler' = [handler EXCEPT
                     !.pc = IF server.shutdown THEN "exited" ELSE "accept"]
    /\ UNCHANGED <<dispatcher, server, loop, outbox, threads, wire, archive>>

\* sock.accept() times out after a second.
WTimeout ==
    /\ handler.pc = "accept"
    /\ handler' = [handler EXCEPT !.pc = "top"]
    /\ UNCHANGED <<dispatcher, server, loop, outbox, threads, wire, archive>>

\* _handle_message of a shutdown message.
WShutdown ==
    /\ handler.pc = "accept"
    /\ server' = [server EXCEPT !.shutdown = TRUE]
    /\ handler' = [handler EXCEPT !.pc = "top"]
    /\ UNCHANGED <<dispatcher, loop, outbox, threads, wire, archive>>

\* _handle_message of new_batch{batch_id: b}, its lock section.  The
\* dispatcher numbers the batches upwards, and a broadcast may be lost.
WNewBatch(b) ==
    /\ handler.pc = "accept"
    /\ b > handler.seen
    /\ server' = [server EXCEPT !.batch_id = b]
    /\ handler' = [handler EXCEPT !.pc = "put",
                                  !.msg = Msg("new_batch", b, NoId),
                                  !.seen = b]
    /\ UNCHANGED <<dispatcher, loop, outbox, threads, wire, archive>>

\* self._job_queue.put(msg) of the new_batch message, outside the lock.
WPut ==
    /\ handler.pc = "put"
    /\ server' = [server EXCEPT !.job_queue = Append(@, handler.msg)]
    /\ handler' = [handler EXCEPT !.pc = "top", !.msg = NoMsg]
    /\ UNCHANGED <<dispatcher, loop, outbox, threads, wire, archive>>

\* _handle_message of new_job{batch_id: b, job_id: j}.
WNewJob(b, j) ==
    /\ handler.pc = "accept"
    /\ server' = IF Current(b)
                 THEN [server EXCEPT
                         !.job_queue = Append(@, Msg("new_job", b, j))]
                 ELSE server
    /\ handler' = [handler EXCEPT !.pc = "top"]
    /\ UNCHANGED <<dispatcher, loop, outbox, threads, wire, archive>>

\* _process_jobs: `while not self._shutdown.is_set()`.
LoopTop ==
    /\ loop.pc = "top"
    /\ loop' = [loop EXCEPT
                  !.pc = IF server.shutdown THEN "exited" ELSE "get"]
    /\ UNCHANGED <<dispatcher, server, handler, outbox, threads, wire,
                   archive>>

\* self._job_queue.get(timeout=1.0) raises Empty.
LoopEmpty ==
    /\ loop.pc = "get"
    /\ server.job_queue = <<>>
    /\ loop' = [loop EXCEPT !.pc = "top"]
    /\ UNCHANGED <<dispatcher, server, handler, outbox, threads, wire,
                   archive>>

\* get returns a message: a new_batch goes to _handle_new_batch, a new_job
\* of the current batch to _process_single_job, anything else is skipped.
LoopGet ==
    /\ loop.pc = "get"
    /\ server.job_queue # <<>>
    /\ server' = [server EXCEPT !.job_queue = Tail(@)]
    /\ LET msg == Head(server.job_queue)
       IN  loop' = IF msg.type = "new_batch"
                   THEN [IdleLoop EXCEPT !.pc = "switch", !.msg = msg]
                   ELSE IF Current(msg.batch_id)
                   THEN [IdleLoop EXCEPT !.pc = "job", !.msg = msg]
                   ELSE IdleLoop
    /\ UNCHANGED <<dispatcher, handler, outbox, threads, wire, archive>>

\* _handle_new_batch: with self._lock: self._batch_id = msg's batch id
HnbLock ==
    /\ loop.pc = "switch"
    /\ server' = [server EXCEPT !.batch_id = loop.msg.batch_id]
    /\ loop' = [loop EXCEPT !.pc = "set"]
    /\ UNCHANGED <<dispatcher, handler, outbox, threads, wire, archive>>

\* self._new_batch.set(), and the output directory is made anew.
HnbSet ==
    /\ loop.pc = "set"
    /\ server' = [server EXCEPT !.new_batch = TRUE]
    /\ loop' = [loop EXCEPT !.pc = "drain"]
    /\ UNCHANGED <<dispatcher, handler, outbox, threads, wire, archive>>

\* while not self._job_queue.empty(): self._job_queue.get_nowait()
HnbDrain ==
    /\ loop.pc = "drain"
    /\ IF server.job_queue = <<>>
       THEN /\ loop' = [loop EXCEPT !.pc = "clear"]
            /\ UNCHANGED server
       ELSE /\ server' = [server EXCEPT !.job_queue = Tail(@)]
            /\ UNCHANGED loop
    /\ UNCHANGED <<dispatcher, handler, outbox, threads, wire, archive>>

\* self._new_batch.clear()
HnbClear ==
    /\ loop.pc = "clear"
    /\ server' = [server EXCEPT !.new_batch = FALSE]
    /\ loop' = IdleLoop
    /\ UNCHANGED <<dispatcher, handler, outbox, threads, wire, archive>>

\* _process_single_job: batch_id = self._batch_id, the id its answer will
\* carry; then the ConversionJob is made.
ProcessSingleJob ==
    /\ loop.pc = "job"
    /\ loop' = [loop EXCEPT !.pc = "run", !.batch_id = server.batch_id]
    /\ UNCHANGED <<dispatcher, server, handler, outbox, threads, wire,
                   archive>>

\* ConversionJob.should_stop
ShouldStop == server.new_batch \/ server.shutdown

\* ConversionJob.run polls should_stop at its start, after _preprocess and
\* after _choose_sizes, and returns the empty result when it is set.
\* `stopped` keeps what should_stop was when run ended.  _preprocess
\* raises on an image it cannot open.
RunPreprocess(ok) ==
    /\ loop.pc = "run"
    /\ loop' = IF ShouldStop
               THEN [loop EXCEPT !.pc = "ran", !.stopped = TRUE]
               ELSE IF ok
               THEN [loop EXCEPT !.pc = "sizes"]
               ELSE [loop EXCEPT !.pc = "except", !.stopped = FALSE]
    /\ UNCHANGED <<dispatcher, server, handler, outbox, threads, wire,
                   archive>>

RunChooseSizes ==
    /\ loop.pc = "sizes"
    /\ loop' = IF ShouldStop
               THEN [loop EXCEPT !.pc = "ran", !.stopped = TRUE]
               ELSE [loop EXCEPT !.pc = "mkdir"]
    /\ UNCHANGED <<dispatcher, server, handler, outbox, threads, wire,
                   archive>>

RunMkdir ==
    /\ loop.pc = "mkdir"
    /\ loop' = IF ShouldStop
               THEN [loop EXCEPT !.pc = "ran", !.stopped = TRUE]
               ELSE [loop EXCEPT !.pc = "variants", !.i = 0, !.files = 0]
    /\ UNCHANGED <<dispatcher, server, handler, outbox, threads, wire,
                   archive>>

\* The end of run: RuntimeError when no variant was written, or the result.
RunEnd(l) ==
    [l EXCEPT !.pc = IF l.files = 0 THEN "except" ELSE "ran",
              !.stopped = ShouldStop]

\* One turn of `for i in range(12)`: break on should_stop, else one
\* variant, which is written or fails.
RunVariant(ok) ==
    /\ loop.pc = "variants"
    /\ loop' = IF loop.i = NumVariants \/ ShouldStop
               THEN RunEnd(loop)
               ELSE [loop EXCEPT !.i = @ + 1,
                                 !.files = IF ok THEN @ + 1 ELSE @]
    /\ UNCHANGED <<dispatcher, server, handler, outbox, threads, wire,
                   archive>>

\* After run: nothing is sent when an event is set; else the archive is
\* made and images_ready is sent with the batch id read at the start.  A
\* failure of either raises.
AfterRun(ok) ==
    /\ loop.pc = "ran"
    /\ IF ShouldStop
       THEN /\ ok
            /\ loop' = IdleLoop
            /\ UNCHANGED outbox
       ELSE IF ok
       THEN /\ loop' = IdleLoop
            /\ outbox' = outbox \cup
                  {Msg("images_ready", loop.batch_id, loop.msg.job_id)}
       ELSE /\ loop' = [loop EXCEPT !.pc = "except"]
            /\ UNCHANGED outbox
    /\ UNCHANGED <<dispatcher, server, handler, threads, wire, archive>>

\* except Exception: job_error is sent; a failure to send it is passed over.
OnException(ok) ==
    /\ loop.pc = "except"
    /\ loop' = IdleLoop
    /\ outbox' = IF ok
                 THEN outbox \cup
                        {Msg("job_error", loop.batch_id, loop.msg.job_id)}
                 ELSE outbox
    /\ UNCHANGED <<dispatcher, server, handler, threads, wire, archive>>

\* The worker on its own.
MayQueue == Len(server.job_queue) < MaxPending

MaySend == Cardinality(outbox) < MaxSent

LoopStep ==
    \/ LoopTop
    \/ LoopEmpty
    \/ LoopGet
    \/ HnbLock
    \/ HnbSet
    \/ HnbDrain
    \/ HnbClear
    \/ ProcessSingleJob
    \/ \E ok \in BOOLEAN : RunPreprocess(ok)
    \/ RunChooseSizes
    \/ RunMkdir
    \/ \E ok \in BOOLEAN : RunVariant(ok)
    \/ \E ok \in BOOLEAN : AfterRun(ok)
    \/ \E ok \in BOOLEAN : OnException(ok)

NextWorker ==
    \/ WListen
    \/ WTimeout
    \/ WShutdown
    \/ \E b \in WorkerBatches : MayQueue /\ WNewBatch(b)
    \/ WPut
    \/ \E b \in WorkerBatches, j \in JobIds :
          MayQueue /\ MaySend /\ WNewJob(b, j)
    \/ LoopStep

SpecWorker == Init /\ [][NextWorker]_vars

\* --------------------------------------------------- protocol versions
Versions == 1..MaxVersion

\* The JSON header of a message to the dispatcher, with the fields the
\* handlers read; "v" is the protocol version it claims.
Header(v, type, hp, b, j, w) ==
    [v |-> v, type |-> type, host_port |-> hp, batch_id |-> b,
     job_id |-> j, worker_id |-> w]

Headers ==
    {Header(v, type, hp, b, j, w) :
        v \in Versions,
        type \in {"shutdown", "new_convertor", "images_ready", "job_error"},
        hp \in Endpoints, b \in 0..1, j \in JobIds,
        w \in 0..(MaxEndpoints - 1)}

\* validate_version raises ProtocolError unless this holds.
ValidVersion(h) == h.v = 1

\* _handle_tcp_message: the handler of the type of the header.
HandleTcpMessage(h) ==
    \/ /\ h.type = "shutdown"
       /\ tcp.pc = "idle"
       /\ threads' = [threads EXCEPT !.shutdown_event = TRUE]
       /\ UNCHANGED <<dispatcher, server, handler, loop, outbox, wire,
                      archive>>
    \/ /\ h.type = "new_convertor"
       /\ RegisterWorker(h.host_port)
    \/ /\ h.type = "images_ready"
       /\ HandleJobComplete(h.batch_id, h.job_id, h.worker_id)
       /\ received' = received \ {[worker_id |-> h.worker_id,
                                    batch_id |-> h.batch_id,
                                    job_id |-> h.job_id]}
    \/ /\ h.type = "job_error"
       /\ HandleJobError(h.batch_id, h.job_id)
       /\ received' = received \ {[worker_id |-> h.worker_id,
                                    batch_id |-> h.batch_id,
                                    job_id |-> h.job_id]}

\* _handle_connection: the header is parsed and handed to the message
\* handler; validate_version is called nowhere.
HandleConnection(h) == HandleTcpMessage(h)

\* The TCP server thread gets headers of every version while jobs are
\* started.
NextVersion ==
    \/ \E h \in Headers : MayAccept /\ HandleConnection(h)
    \/ SendAck
    \/ PutResult
    \/ \E c \in Schedulers, jin \in JobIds : MayStart /\ StartJob(c, jin)
    \/ \E c \in Schedulers, sent \in BOOLEAN : StartJobSend(c, sent)

SpecVersion == Init /\ [][NextVersion]_vars

\* ------------------------------------------------------------ TCP framing
\* One connection from send_file_tcp to _handle_connection.  A byte is a
\* number in 0..255, a character of the header its ASCII code.
Min(a, b) == IF a < b THEN a ELSE b

\* struct.pack(">I", n)
Pack(n) ==
    <<(n \div 16777216) % 256, (n \div 65536) % 256, (n \div 256) % 256,
      n % 256>>

\* struct.unpack(">I", s)[0]
Unpack(s) == s[1] * 16777216 + s[2] * 65536 + s[3] * 256 + s[4]

\* The decimal digits of n, as json.dumps writes an integer.
RECURSIVE Digits(_)
Digits(n) ==
    IF n < 10 THEN <<48 + n>> ELSE Digits(n \div 10) \o <<48 + (n % 10)>>

IsDigit(ch) == ch >= 48 /\ ch <= 57

\* int() of a string of digits.
RECURSIVE Number(_)
Number(s) ==
    IF s = <<>> THEN 0
    ELSE 10 * Number(SubSeq(s, 1, Len(s) - 1)) + (s[Len(s)] - 48)

FileHeader(type, n) == [type |-> type, byte_length |-> n]

BadHeader == FileHeader("bad", -1)

\* json.dumps(header).encode("utf-8"), cut down to the two fields the
\* receiver reads: {i,<byte_length>} for images_ready, {j,<byte_length>}
\* for new_job.
Dumps(h) ==
    <<123, IF h.type = "images_ready" THEN 105 ELSE 106, 44>>
        \o Digits(h.byte_length) \o <<125>>

\* json.loads(header_bytes.decode("utf-8")); text that is no header raises
\* json.JSONDecodeError.
Loads(s) ==
    IF /\ Len(s) >= 5
       /\ s[1] = 123 /\ s[2] \in {105, 106} /\ s[3] = 44 /\ s[Len(s)] = 125
       /\ \A i \in 4..(Len(s) - 1) : IsDigit(s[i])
       /\ (s[4] = 48 => Len(s) = 5)
    THEN FileHeader(IF s[2] = 105 THEN "images_ready" ELSE "new_job",
                    Number(SubSeq(s, 4, Len(s) - 1)))
    ELSE BadHeader

\* The file sent: n bytes counting up from k; k = 120 gives bytes that
\* read like the characters of a header.
FileBytes(n, k) == [i \in 1..n |-> (k + i) % 256]

\* SendFiles: prefix, header and file_bytes, in the order send_file_tcp
\* hands them to sendall.
Frame(h, P) == Pack(Len(Dumps(h))) \o Dumps(h) \o P

\* The connection for header h and file P: nothing sent yet, and the
\* receiver about to read the four bytes of the length.
NewWire(h, P) ==
    [pc |-> "prefix", H |-> h, P |-> P, sent |-> 0, closed |-> FALSE,
     pos |-> 0, n |-> 4, buf |-> <<>>, header |-> BadHeader,
     payload |-> <<>>, split |-> FALSE]

InitFrame ==
    /\ InitDispatcher
    /\ InitWorker
    /\ archive = NoArchive
    /\ \E type \in {"images_ready", "new_job"}, n \in 0..MaxPayload,
          k \in {0, 120} :
          wire = NewWire(FileHeader(type, n), FileBytes(n, k))

\* sendall: the next k bytes of the frame go out.
Sendall(k) ==
    /\ wire.pc # "none"
    /\ ~wire.closed
    /\ wire.sent + k <= Len(Frame(wire.H, wire.P))
    /\ wire' = [wire EXCEPT !.sent = @ + k]
    /\ UNCHANGED <<dispatcher, server, handler, loop, outbox, threads,
                   archive>>

\* The sender's socket is closed: at the end of the `with` block, or
\* earlier when a sendall raised.
Close ==
    /\ wire.pc # "none"
    /\ ~wire.closed
    /\ wire' = [wire EXCEPT !.closed = TRUE]
    /\ UNCHANGED <<dispatcher, server, handler, loop, outbox, threads,
                   archive>>

\* A recv that asks for all n bytes whatever was read already.
WantAll(n, buf) == n

\* conn.recv(n - len(buf))
Want(n, buf) == n - Len(buf)

\* What _handle_connection does with the bytes recv_exact returned.
Received(w, buf) ==
    IF w.pc = "prefix"
    THEN IF Len(buf) # 4 \/ Unpack(buf) > 10000000
         THEN [w EXCEPT !.pc = "failed"]
         ELSE [w EXCEPT !.pc = "header", !.n = Unpack(buf), !.buf = <<>>]
    ELSE IF w.pc = "header"
    THEN IF Loads(buf) = BadHeader
         THEN [w EXCEPT !.pc = "failed"]
         ELSE IF Loads(buf).byte_length = 0
         THEN [w EXCEPT !.pc = "done", !.header = Loads(buf), !.buf = <<>>]
         ELSE [w EXCEPT !.pc = "payload", !.header = Loads(buf),
                        !.n = Loads(buf).byte_length, !.buf = <<>>]
    ELSE [w EXCEPT !.pc = "done", !.payload = buf, !.buf = <<>>]

\* One turn of the loop of recv_exact: recv returns c bytes, at least one
\* and no more than it was asked for or than have arrived.
Recv(c) ==
    /\ wire.pc \in {"prefix", "header", "payload"}
    /\ c >= 1
    /\ c <= Min(Want(wire.n, wire.buf), wire.sent - wire.pos)
    /\ LET buf == wire.buf \o SubSeq(Frame(wire.H, wire.P), wire.pos + 1,
                                      wire.pos + c)
           w == [wire EXCEPT !.pos = @ + c, !.buf = buf,
                             !.split = @ \/ Len(buf) < wire.n]
       IN  wire' = IF Len(buf) >= wire.n THEN Received(w, buf) ELSE w
    /\ UNCHANGED <<dispatcher, server, handler, loop, outbox, threads,
                   archive>>

\* recv returns b"" on a closed connection: RecvFailed.
RecvClosed ==
    /\ wire.pc \in {"prefix", "header", "payload"}
    /\ wire.closed
    /\ wire.sent = wire.pos
    /\ wire' = [wire EXCEPT !.pc = "failed"]
    /\ UNCHANGED <<dispatcher, server, handler, loop, outbox, threads,
                   archive>>

NextFrame ==
    \/ \E k \in 1..MaxSegment : Sendall(k)
    \/ Close
    \/ \E c \in 1..MaxSegment : Recv(c)
    \/ RecvClosed

SpecFrame == InitFrame /\ [][NextFrame]_vars

\* --------------------------------------------------------------- shutdown
\* The loops that poll a shutdown event: tcp_server, udp_server and
\* _monitor_heartbeats of the dispatcher poll self._shutdown_event,
\* send_heartbeats of the worker polls the worker's event.  The worker's
\* tcp_server and job loop are `handler` and `loop` above.
Pollers == {"tcp", "udp", "monitor", "heartbeat"}

\* A loop that never sees its event set.
IsSetNever(t) == FALSE

\* shutdown_event.is_set() of the loop t
IsSet(t) ==
    IF t = "heartbeat" THEN server.shutdown ELSE threads.shutdown_event

\* `while not shutdown_event.is_set()` of the loop t.
Poll(t) ==
    /\ threads[t] = "top"
    /\ threads' = [threads EXCEPT
                     ![t] = IF IsSet(t) THEN "exited" ELSE "body"]
    /\ UNCHANGED <<dispatcher, server, handler, loop, outbox, wire, archive>>

\* The body of the loop t ends: accept or recvfrom timed out or the
\* message was handled, the monitor's pass is over, the heartbeat was
\* sent and the wait of two seconds is over.
Body(t) ==
    /\ threads[t] = "body"
    /\ t = "tcp" => tcp.pc = "idle"
    /\ threads' = [threads EXCEPT ![t] = "top"]
    /\ UNCHANGED <<dispatcher, server, handler, loop, outbox, wire, archive>>

\* JobService.shutdown(): the event is set; the shutdown message it sends
\* to the workers is WShutdown at the worker.
Shutdown ==
    /\ ~threads.shutdown_event
    /\ threads' = [threads EXCEPT !.shutdown_event = TRUE]
    /\ UNCHANGED <<dispatcher, server, handler, loop, outbox, wire, archive>>

\* The dispatcher's TCP server thread handles a shutdown message.
TcpShutdown ==
    /\ threads.tcp = "body"
    /\ HandleConnection(Header(1, "shutdown", 1, 0, 0, 0))

\* The steps of the worker's TCP server thread that need no message.
HandlerStep == WListen \/ WTimeout \/ WPut

NextShutdown ==
    \/ \E t \in Pollers : Poll(t)
    \/ \E t \in Pollers : Body(t)
    \/ Shutdown
    \/ TcpShutdown
    \/ WShutdown
    \/ MayQueue /\ WNewBatch(1)
    \/ MayQueue /\ MaySend /\ WNewJob(1, 0)
    \/ HandlerStep
    \/ LoopStep

\* Every thread that can take a step takes one in the end.
SpecShutdown ==
    /\ Init
    /\ [][NextShutdown]_vars
    /\ \A t \in Pollers : WF_vars(Poll(t) \/ Body(t))
    /\ WF_vars(HandlerStep)
    /\ WF_vars(LoopStep)

\* ---------------------------------------------------------- extract_files
\* The ZIP branch of extract_files.  A path is the sequence of its
\* components; the name of an entry is the path written in the archive.
DestDir == <<"results", "0", "0">>

Entry(name, dir) == [name |-> name, dir |-> dir]

Traversal == Entry(<<"..", "evil.png">>, FALSE)

Entries ==
    {Traversal, Entry(<<"evil.png">>, FALSE), Entry(<<"sub">>, TRUE),
     Entry(<<"sub", "a.png">>, FALSE), Entry(<<"__MACOSX", "a.png">>, FALSE),
     Entry(<<".DS_Store">>, FALSE), Entry(<<"note.txt">>, FALSE),
     Entry(<<".hidden.png">>, FALSE)}

ALLOWED_IMG_EXTS == {".png", ".jpg", ".jpeg", ".webp"}

\* Path(raw_name).name
BaseName(name) == name[Len(name)]

\* Path(raw_name).suffix.lower()
Suffix(name) ==
    CASE BaseName(name) \in {"evil.png", "a.png", ".hidden.png"} -> ".png"
      [] BaseName(name) = "note.txt" -> ".txt"
      [] OTHER -> ""

\* werkzeug's secure_filename of one path component: the dots and
\* underscores at its ends are stripped.
SecureFilename(c) ==
    CASE c = ".hidden.png" -> "hidden.png"
      [] c = ".DS_Store" -> "DS_Store"
      [] c \in {"..", "."} -> ""
      [] OTHER -> c

\* Path.resolve() where nothing is a symbolic link: "." and ".." are
\* folded away.
RECURSIVE Resolve(_)
Resolve(path) ==
    IF path = <<>> THEN <<>>
    ELSE LET front == Resolve(SubSeq(path, 1, Len(path) - 1))
             last == path[Len(path)]
         IN  IF last = "." THEN front
             ELSE IF last = ".."
             THEN (IF front = <<>> THEN <<>>
                   ELSE SubSeq(front, 1, Len(front) - 1))
             ELSE Append(front, last)

\* is_in_dir: target.resolve().relative_to(base.resolve()) does not raise.
IsInDir(base, target) ==
    /\ Len(Resolve(target)) >= Len(Resolve(base))
    /\ SubSeq(Resolve(target), 1, Len(Resolve(base))) = Resolve(base)

\* extract_files about to read the first entry of the archive.
NewArchive(entries) ==
    [pc |-> "loop", entries |-> entries, i |-> 1, extracted |-> <<>>,
     written |-> {}]

InitExtract ==
    /\ InitDispatcher
    /\ InitWorker
    /\ wire = NoWire
    /\ \E n \in 1..MaxEntries : \E entries \in [1..n -> Entries] :
          archive = NewArchive(entries)

\* The entry is passed over: a directory, a file of macOS, a suffix that
\* is not allowed, a name that sanitizes to nothing, or a path outside
\* the destination.
Skipped(e) ==
    \/ e.dir
    \/ (Len(e.name) > 1 /\ e.name[1] = "__MACOSX")
    \/ BaseName(e.name) = ".DS_Store"
    \/ Suffix(e.name) \notin ALLOWED_IMG_EXTS
    \/ SecureFilename(BaseName(e.name)) = ""
    \/ ~IsInDir(DestDir,
                Resolve(Append(DestDir, SecureFilename(BaseName(e.name)))))

\* One turn of `for info in z.infolist()`; the write succeeds or raises
\* OSError, which is logged.
ExtractEntry(ok) ==
    /\ archive.pc = "loop"
    /\ archive.i <= Len(archive.entries)
    /\ LET e == archive.entries[archive.i]
           out_path == Resolve(Append(DestDir,
                                      SecureFilename(BaseName(e.name))))
       IN  archive' =
             IF Skipped(e) \/ ~ok
             THEN [archive EXCEPT !.i = @ + 1]
             ELSE [archive EXCEPT !.i = @ + 1,
                                  !.written = @ \cup {out_path},
                                  !.extracted = Append(@, out_path)]
    /\ UNCHANGED <<dispatcher, server, handler, loop, outbox, threads, wire>>

\* return extracted_files
ExtractReturn ==
    /\ archive.pc = "loop"
    /\ archive.i > Len(archive.entries)
    /\ archive' = [archive EXCEPT !.pc = "returned"]
    /\ UNCHANGED <<dispatcher, server, handler, loop, outbox, threads, wire>>

NextExtract ==
    \/ \E ok \in BOOLEAN : ExtractEntry(ok)
    \/ ExtractReturn

SpecExtract == InitExtract /\ [][NextExtract]_vars

\* ---------------------------------------------------------- the lock
\* self._lock and the threads that take it: the thread of an API request,
\* the TCP server thread, the UDP server thread and the liveness monitor.
\* A method is the sequence of what it does with the lock and with the
\* network: "acquire" and "release" are the two ends of a `with self._lock`
\* block, "send" is send_tcp or send_file_tcp, "put" and "get" are the calls
\* on the result queue.
RECURSIVE Times(_, _)
Times(ops, n) == IF n = 0 THEN <<>> ELSE ops \o Times(ops, n - 1)

\* The monitor with self.start_job(job_dict) inside its `with` block.
RECURSIVE CodeLocked(_, _)
CodeLocked(m, n) ==
    CASE m = "shutdown" -> <<"acquire", "release">> \o Times(<<"send">>, n)
      [] m = "new_batch" -> <<"acquire", "release">> \o Times(<<"send">>, n)
      [] m = "set_job_count" -> <<"acquire", "release">>
      [] m = "is_batch_complete" -> <<"acquire", "release">>
      [] m = "start_job" -> <<"acquire", "release", "send">>
      [] m = "get_next_result" ->
            CodeLocked("is_batch_complete", 0) \o <<"get", "acquire", "release">>
      [] m = "_register_worker" -> <<"acquire", "release", "send">>
      [] m = "_handle_job_complete" -> <<"acquire", "release", "put">>
      [] m = "_handle_job_error" -> <<"acquire", "release", "put">>
      [] m = "_handle_heartbeat" -> <<"acquire", "release">>
      [] m = "_monitor_heartbeats" ->
            <<"acquire">> \o Times(CodeLocked("start_job", 0), n)
                         \o <<"release">>

\* Method m of JobService, with n turns of its loop: one send per listed
\* worker in shutdown and new_batch, one start_job per job to reassign in
\* the monitor.
RECURSIVE Code(_, _)
Code(m, n) ==
    CASE m = "shutdown" -> <<"acquire", "release">> \o Times(<<"send">>, n)
      [] m = "new_batch" -> <<"acquire", "release">> \o Times(<<"send">>, n)
      [] m = "set_job_count" -> <<"acquire", "release">>
      [] m = "is_batch_complete" -> <<"acquire", "release">>
      [] m = "start_job" -> <<"acquire", "release", "send">>
      [] m = "get_next_result" ->
            Code("is_batch_complete", 0) \o <<"get", "acquire", "release">>
      [] m = "_register_worker" -> <<"acquire", "release", "send">>
      [] m = "_handle_job_complete" -> <<"acquire", "release", "put">>
      [] m = "_handle_job_error" -> <<"acquire", "release", "put">>
      [] m = "_handle_heartbeat" -> <<"acquire", "release">>
      [] m = "_monitor_heartbeats" ->
            <<"acquire", "release">> \o Times(Code("start_job", 0), n)

\* The methods each thread runs.
Methods(t) ==
    CASE t = "api" -> {"shutdown", "new_batch", "set_job_count",
                       "is_batch_complete", "start_job", "get_next_result"}
      [] t = "tcp" -> {"_register_worker", "_handle_job_complete",
                       "_handle_job_error"}
      [] t = "udp" -> {"_handle_heartbeat"}
      [] t = "monitor" -> {"_monitor_heartbeats"}

\* Thread t enters method m.
LockCall(t, m, n) ==
    /\ lock.todo[t] = <<>>
    /\ lock' = [lock EXCEPT !.todo[t] = Code(m, n)]
    /\ UNCHANGED <<registry, jobs, batch, now, caller, ret, tcp, received,
                   mon, server, handler, loop, outbox, threads, wire,
                   archive>>

\* Thread t does the next thing of its method; Lock.acquire blocks while
\* the lock is held, by whatever thread.
LockStep(t) ==
    /\ lock.todo[t] # <<>>
    /\ Head(lock.todo[t]) = "acquire" => lock.holder = "none"
    /\ lock' = [holder |-> CASE Head(lock.todo[t]) = "acquire" -> t
                             [] Head(lock.todo[t]) = "release" -> "none"
                             [] OTHER -> lock.holder,
                todo |-> [lock.todo EXCEPT ![t] = Tail(lock.todo[t])]]
    /\ UNCHANGED <<registry, jobs, batch, now, caller, ret, tcp, received,
                   mon, server, handler, loop, outbox, threads, wire,
                   archive>>

\* A return statement inside a `with self._lock` block: the block releases
\* the lock and the method ends.
LockReturn(t) ==
    /\ lock.holder = t
    /\ Head(lock.todo[t]) # "acquire"
    /\ lock' = [holder |-> "none",
                todo |-> [lock.todo EXCEPT ![t] = <<>>]]
    /\ UNCHANGED <<registry, jobs, batch, now, caller, ret, tcp, received,
                   mon, server, handler, loop, outbox, threads, wire,
                   archive>>

NextLock ==
    \E t \in LockThreads :
        \/ \E m \in Methods(t) : \E n \in 0..MaxIter : LockCall(t, m, n)
        \/ LockStep(t)
        \/ LockReturn(t)

SpecLock == Init /\ [][NextLock]_vars

\* ------------------------------------------------------------- properties
NoAliveWorker == \A w \in WorkerIds : workers[w].status # "alive"

\* w is alive, no alive worker has fewer active jobs, and none with as many
\* has a smaller id.
Least(w) ==
    /\ w \in WorkerIds
    /\ workers[w].status = "alive"
    /\ \A v \in WorkerIds :
          workers[v].status = "alive" =>
             \/ Len(workers[v].active_jobs) > Len(workers[w].active_jobs)
             \/ /\ Len(workers[v].active_jobs) = Len(workers[w].active_jobs)
                /\ w <= v

\* This step gave the job j to the worker w: j is the new last entry of its
\* active jobs, the record of j names its endpoint, and the message goes
\* to the endpoint hp.
GivenTo(w, j, hp) ==
    /\ workers'[w].active_jobs = Append(workers[w].active_jobs, j)
    /\ \A v \in WorkerIds \ {w} : workers'[v] = workers[v]
    /\ j \in DOMAIN jobs'
    /\ jobs'[j].worker = workers[w].host_port
    /\ jobs'[j].status = "running"
    /\ hp = workers[w].host_port

\* C1: while some registered worker is alive, start_job (of a caller or of
\* the monitor) gives the job to an alive worker with the fewest active
\* jobs, the one of smallest id among those, and fails for no other
\* reason under the lock; no step adds an active job to any other worker.
C1_LeastLoaded ==
    [][/\ \A w \in DOMAIN workers' :
             (w \notin WorkerIds /\ workers'[w].active_jobs # <<>>)
             \/ (w \in WorkerIds /\ Len(workers'[w].active_jobs)
                                     > Len(workers[w].active_jobs))
             => Least(w)
       /\ \A c \in Callers :
             caller[c].pc = "idle" /\ caller'[c].pc = "sj_send" =>
                \E w \in WorkerIds :
                   /\ Least(w)
                   /\ GivenTo(w, caller'[c].job_id, caller'[c].host_port)
       /\ mon.pc = "reassign" /\ mon'.pc = "mon_send" =>
             \E w \in WorkerIds :
                Least(w) /\ GivenTo(w, mon'.job_id, mon'.host_port)
       /\ \A c \in Callers :
             /\ caller[c].pc = "idle"
             /\ ret'[1] = "start_job"
             /\ ret'[2] = c
             => NoAliveWorker
       /\ mon.pc = "reassign" /\ mon'.pc # "mon_send" /\ mon' # mon
             => NoAliveWorker
      ]_vars

\* The job of a caller went to worker 1 although worker 0 is alive: worker
\* 0 had more active jobs.
C1_Witness ==
    \E c \in Callers :
        /\ caller[c].pc = "sj_send"
        /\ 1 \in WorkerIds
        /\ workers[0].status = "alive"
        /\ workers[1].status = "alive"
        /\ caller[c].host_port = workers[1].host_port
        /\ workers[1].active_jobs = <<caller[c].job_id>>
        /\ Len(workers[0].active_jobs) >= 1

\* C2: start_job returns True whenever it chose an alive worker and
\* recorded the job, also when the new_job message cannot be sent.
C2_TrueAfterDispatch ==
    [][\A c \in Callers :
          caller[c].pc = "sj_send" /\ caller'[c].pc = "idle" =>
             ret' = Ret("start_job", c, TRUE)
      ]_vars

\* C3: with no alive worker registered, start_job returns False, makes or
\* replaces no JobState, adds to no worker's active jobs and sends nothing.
C3_NoAliveWorker ==
    [][NoAliveWorker =>
          /\ \A j \in DOMAIN jobs' :
                /\ j \in DOMAIN jobs
                /\ jobs'[j] = jobs[j] \/ jobs'[j].status # "running"
          /\ \A w \in WorkerIds :
                workers'[w].active_jobs = workers[w].active_jobs
          /\ \A c \in Callers :
                caller[c].pc = "idle" =>
                   /\ caller'[c].pc # "sj_send"
                   /\ ret'[1] = "start_job" /\ ret'[2] = c
                      => ret'[3] = FALSE
          /\ mon.pc = "reassign" => mon'.pc # "mon_send"
      ]_vars

\* start_job has just returned False to an idle caller while the only
\* registered workers are dead.
C3_Witness ==
    \E c \in Callers :
        /\ ret = Ret("start_job", c, FALSE)
        /\ caller[c].pc = "idle"
        /\ WorkerIds # {}
        /\ NoAliveWorker
        /\ jobs = NoJobs
        /\ received = {}

\* C4: every result get_next_result returns carries the batch id that is
\* current when it is returned; no result of an earlier batch comes out
\* after new_batch.
C4_CurrentBatchOnly ==
    ret[1] = "get_next_result" =>
        ret[3] = NoResult \/ ret[3].batch_id = batch_id

\* C5: an images_ready or job_error of another batch than the current one
\* is dropped: the handler puts nothing on the queue and changes no
\* JobState, no worker's active jobs and no counter of the batch.
C5_StaleDropped ==
    [][\A m \in received :
          m \notin received' /\ m.batch_id # batch_id =>
             /\ tcp' = IdleTcp
             /\ UNCHANGED <<results, jobs, workers, batch_id, next_job_id,
                            total_jobs, completed_jobs>>
      ]_vars

\* The answer to a new_job of the batch before is about to arrive, while
\* the job id is running again in the current batch on the same worker.
C5_Witness ==
    \E m \in received :
        /\ m.batch_id # batch_id
        /\ tcp.pc = "idle"
        /\ MayAccept
        /\ m.job_id \in DOMAIN jobs
        /\ jobs[m.job_id].status = "running"
        /\ jobs[m.job_id].batch_id = batch_id
        /\ Contains(workers[m.worker_id].active_jobs, m.job_id)

\* C6: new_batch makes the batch id one larger (1 at first), and when it
\* takes effect the job table and the queue are empty and total,
\* completed and the job id counter are 0; the call returns that id.
C6_NewBatch ==
    [][/\ batch_id' # batch_id =>
             /\ batch_id' = batch_id + 1
             /\ batch_id' >= 1
             /\ jobs' = NoJobs
             /\ results' = <<>>
             /\ total_jobs' = 0
             /\ completed_jobs' = 0
             /\ next_job_id' = 0
             /\ \E c \in Callers :
                   /\ caller[c].pc = "idle"
                   /\ caller'[c].pc = "nb_send"
                   /\ caller'[c].batch_id = batch_id'
       /\ \A c \in Callers :
             caller[c].pc = "nb_send" /\ caller'[c].pc = "idle" =>
                ret' = Ret("new_batch", c, caller[c].batch_id)
      ]_vars

\* The second new_batch took effect on a batch that had a job, a counted
\* result and an item in the queue a moment ago: a caller holds that item.
C6_Witness ==
    \E c, d \in Callers :
        /\ caller[c].pc = "nb_send"
        /\ caller[c].batch_id = 2
        /\ batch_id = 2
        /\ caller[d].pc = "gnr_inc"
        /\ caller[d].res.batch_id = 1

\* C7: every job id in a worker's active jobs has a JobState that names
\* this worker and is running.
C7_ActiveAreRunning ==
    \A w \in WorkerIds :
        \A i \in 1..Len(workers[w].active_jobs) :
            /\ workers[w].active_jobs[i] \in DOMAIN jobs
            /\ jobs[workers[w].active_jobs[i]].worker = workers[w].host_port
            /\ jobs[workers[w].active_jobs[i]].status = "running"

\* C8: a running job whose worker is alive is in the active jobs of that
\* worker.
C8_RunningAreActive ==
    \A j \in DOMAIN jobs :
        jobs[j].status = "running" =>
            \A w \in WorkerIds :
                /\ workers[w].host_port = jobs[j].worker
                /\ workers[w].status = "alive"
                => Contains(workers[w].active_jobs, j)

\* Worker 0 is dead and its job went to worker 1, which is alive and has
\* it running, after another job was done.
C8_Witness ==
    /\ 1 \in WorkerIds
    /\ workers[0].status = "dead"
    /\ workers[1].status = "alive"
    /\ \E j, k \in DOMAIN jobs :
          /\ jobs[j].status = "running"
          /\ jobs[j].worker = workers[1].host_port
          /\ Contains(workers[1].active_jobs, j)
          /\ jobs[k].status = "done"
    /\ mon.pc = "mon_send"

\* C9: completed never exceeds total.
C9_CompletedAtMostTotal == completed_jobs <= total_jobs

\* C10: is_batch_complete returns True exactly if total > 0 and completed
\* >= total; it returns False after set_job_count(0) and while
\* set_job_count was not called in the batch.
C10_IsBatchComplete ==
    ret[1] = "is_batch_complete" =>
        /\ ret[3] = (total_jobs > 0 /\ completed_jobs >= total_jobs)
        /\ total_jobs = 0 => ret[3] = FALSE
        /\ ~count_called => ret[3] = FALSE

\* is_batch_complete has just returned False in a batch with a counted
\* result and no call of set_job_count.
C10_Witness ==
    /\ ret[1] = "is_batch_complete"
    /\ ret[3] = FALSE
    /\ ~count_called
    /\ completed_jobs > 0

\* The heartbeat of w is at least the timeout old.
Expired(w) == now - workers[w].last_heartbeat >= HeartbeatTimeout

\* This step marks w dead.
Dies(w) == workers[w].status = "alive" /\ workers'[w].status = "dead"

\* C11: a pass of the liveness monitor marks an alive worker dead exactly
\* if now - last_heartbeat >= heartbeat_timeout at the pass, and empties
\* the active jobs of a worker it marks dead; no other step marks a worker
\* dead.
C11_MonitorPass ==
    [][/\ MonitorPass =>
             \A w \in WorkerIds :
                /\ workers[w].status = "alive" => (Dies(w) <=> Expired(w))
                /\ Dies(w) => workers'[w].active_jobs = <<>>
                /\ ~Dies(w) => workers'[w] = workers[w]
       /\ \A w \in WorkerIds :
             Dies(w) => mon.pc = "sleep" /\ Expired(w)
                        /\ workers'[w].active_jobs = <<>>
      ]_vars

\* A pass has marked worker 0 dead, which had a running job, and has left
\* worker 1 alive, whose heartbeat was newer.
C11_Witness ==
    /\ 1 \in WorkerIds
    /\ workers[0].status = "dead"
    /\ workers[0].active_jobs = <<>>
    /\ workers[1].status = "alive"
    /\ workers[1].active_jobs # <<>>
    /\ now - workers[0].last_heartbeat >= HeartbeatTimeout
    /\ now - workers[1].last_heartbeat < HeartbeatTimeout
    /\ mon.pc = "reassign"

\* The record of j is running and names the worker w.
OnWorker(j, w) ==
    /\ j \in DOMAIN jobs
    /\ jobs[j].status = "running"
    /\ jobs[j].worker = workers[w].host_port

InTodo(todo, j) == \E i \in 1..Len(todo) : todo[i].job_id = j

\* C12: every job running on a worker the monitor marks dead is in the
\* monitor's list; while another worker is alive the monitor's start_job
\* gives each job of the list, under its job id, to the alive worker with
\* the fewest active jobs and records it as running there; no worker is
\* marked dead while the monitor works on the list.
C12_Reassign ==
    [][/\ \A w \in WorkerIds :
             Dies(w) =>
                \A j \in DOMAIN jobs :
                   OnWorker(j, w) =>
                      mon'.pc = "reassign" /\ InTodo(mon'.todo, j)
       /\ mon.pc = "reassign" /\ mon' # mon /\ ~NoAliveWorker =>
             /\ mon'.pc = "mon_send"
             /\ mon'.todo = mon.todo
             /\ mon'.job_id = Head(mon.todo).job_id
             /\ \E w \in WorkerIds :
                   /\ Least(w)
                   /\ GivenTo(w, Head(mon.todo).job_id, mon'.host_port)
       /\ mon.pc = "mon_send" /\ mon' # mon =>
             /\ mon'.todo = Tail(mon.todo)
             /\ mon'.pc = (IF mon'.todo = <<>> THEN "sleep" ELSE "reassign")
             /\ \A m \in received' \ received :
                   /\ m.job_id = mon.job_id
                   /\ workers[m.worker_id].host_port = mon.host_port
       /\ mon.pc # "sleep" => \A w \in WorkerIds : ~Dies(w)
      ]_vars

\* Worker 0 is dead and the monitor has given its job to worker 1, which
\* is alive and had a job of its own.
C12_Witness ==
    /\ 1 \in WorkerIds
    /\ workers[0].status = "dead"
    /\ workers[1].status = "alive"
    /\ mon.pc = "mon_send"
    /\ mon.host_port = workers[1].host_port
    /\ Len(workers[1].active_jobs) = 2
    /\ workers[1].active_jobs[2] = mon.job_id
    /\ jobs[mon.job_id].status = "running"
    /\ jobs[mon.job_id].worker = workers[1].host_port

\* The images results of the job j in the queue.
ImagesOf(j) ==
    {i \in 1..Len(results) :
        results[i].type = "images" /\ results[i].job_id = j}

\* C13: the caller gets one images result for a job, also for a job that
\* went to a second worker when the monitor marked the first one dead,
\* whatever the two workers send.
C13_OneResult == \A j \in DOMAIN jobs : Cardinality(ImagesOf(j)) <= 1

\* The record of j is running on a dead worker and the monitor has no
\* start_job for j ahead: it has dropped j, or j was never in its list.
Orphan(j) ==
    /\ j \in DOMAIN jobs
    /\ jobs[j].status = "running"
    /\ \E w \in WorkerIds :
          workers[w].host_port = jobs[j].worker /\ workers[w].status = "dead"
    /\ ~InTodo(mon.todo, j)

\* The monitor's start_job finds an alive worker exactly if there is one,
\* and drops the job otherwise; the monitor never dispatches an orphan.
MonitorNoRetry ==
    /\ mon.pc = "reassign" /\ MonitorStartJob =>
          /\ mon'.pc = "mon_send" <=> ~NoAliveWorker
          /\ NoAliveWorker =>
                /\ mon'.todo = Tail(mon.todo)
                /\ UNCHANGED <<workers, jobs, received>>
    /\ \A j \in DOMAIN jobs :
          Orphan(j) => ~(mon.pc # "mon_send" /\ mon'.pc = "mon_send"
                         /\ mon'.job_id = j)

\* C14: a job of a dead worker is reassigned iff a worker is alive when the
\* monitor calls start_job for it; otherwise the monitor drops it and never
\* retries, its record stays running and no result is put on the queue for
\* it.
C14_DroppedForGood ==
    [][/\ MonitorNoRetry
       /\ \A j \in DOMAIN jobs :
             Orphan(j) =>
                /\ j \in DOMAIN jobs' => jobs'[j].status = "running"
                /\ ~(tcp.pc = "idle" /\ tcp'.pc = "put"
                     /\ tcp'.res.job_id = j)
      ]_vars

\* C15: a failed send of new_job changes no record and no worker's active
\* jobs, so the job stays running on its worker; when the monitor marks
\* that worker dead, every running job in its active jobs is in the
\* monitor's list, delivered or not.
C15_SendFailure ==
    [][/\ \A c \in Callers :
             /\ caller[c].pc = "sj_send"
             /\ caller'[c].pc = "idle"
             /\ received' = received
             => UNCHANGED <<jobs, workers>>
       /\ mon.pc = "mon_send" /\ mon' # mon /\ received' = received
             => UNCHANGED <<jobs, workers>>
       /\ \A w \in WorkerIds :
             Dies(w) =>
                \A i \in 1..Len(workers[w].active_jobs) :
                   LET j == workers[w].active_jobs[i]
                   IN  j \in DOMAIN jobs /\ jobs[j].status = "running"
                       => mon'.pc = "reassign" /\ InTodo(mon'.todo, j)
      ]_vars

\* The new_job of a job never reached worker 0; the job stayed running
\* there, worker 0 was marked dead, and the monitor is about to call
\* start_job for the job while worker 1 is alive.
C15_Witness ==
    /\ 1 \in WorkerIds
    /\ workers[0].status = "dead"
    /\ workers[1].status = "alive"
    /\ received = {}
    /\ results = <<>>
    /\ tcp.pc = "idle"
    /\ mon.pc = "reassign"
    /\ Head(mon.todo).job_id \in DOMAIN jobs
    /\ jobs[Head(mon.todo).job_id].status = "running"
    /\ jobs[Head(mon.todo).job_id].worker = workers[0].host_port

\* C16: a heartbeat{w, t} sets last_heartbeat of w to t if w is registered
\* and alive and changes nothing otherwise; it never changes the status,
\* the active jobs or the endpoint of a worker, a JobState or anything
\* else of the dispatcher.
C16_HeartbeatFrame ==
    [][\A w \in 0..(MaxEndpoints - 1), t \in 0..MaxTime :
          HandleHeartbeat(w, t) =>
             /\ UNCHANGED <<next_worker_id, jobs, batch_id, next_job_id,
                            total_jobs, completed_jobs, results, received>>
             /\ DOMAIN workers' = DOMAIN workers
             /\ \A v \in WorkerIds :
                   /\ workers'[v].status = workers[v].status
                   /\ workers'[v].active_jobs = workers[v].active_jobs
                   /\ workers'[v].host_port = workers[v].host_port
                   /\ workers'[v].last_heartbeat =
                         IF v = w /\ workers[v].status = "alive"
                         THEN t ELSE workers[v].last_heartbeat
      ]_vars

\* Worker 0 registered before worker 1, which is dead, and is alive with a
\* job because its heartbeat of time 1 was handled.
C16_Witness ==
    /\ 1 \in WorkerIds
    /\ workers[0].status = "alive"
    /\ workers[0].last_heartbeat = 1
    /\ workers[0].active_jobs # <<>>
    /\ workers[1].status = "dead"
    /\ workers[1].last_heartbeat = 0

\* Some worker is registered at the endpoint hp.
Known(hp) == \E w \in WorkerIds : workers[w].host_port = hp

\* C17: a new_convertor for an endpoint that is registered makes no
\* WorkerState and draws no worker id: the registry stays as the first
\* registration left it, and no two workers have one endpoint.
C17_Idempotent ==
    [][/\ \A hp \in Endpoints :
             RegisterWorker(hp) /\ Known(hp) =>
                UNCHANGED <<workers, next_worker_id>>
       /\ \A v, w \in DOMAIN workers' :
             v # w => workers'[v].host_port # workers'[w].host_port
      ]_vars

\* The worker of an endpoint is registered and dead, its job is still
\* there, and the TCP server thread is free for its next new_convertor.
C17_Witness ==
    /\ next_worker_id = 1
    /\ workers[0].status = "dead"
    /\ tcp.pc = "idle"
    /\ mon.pc = "sleep"
    /\ \E j \in DOMAIN jobs : Orphan(j)

\* C18: a new_convertor for an endpoint that is registered is answered
\* with an ack that carries the worker id of the existing record.
C18_AckOnRepeat ==
    [][\A hp \in Endpoints :
          RegisterWorker(hp) /\ Known(hp) =>
             /\ tcp'.pc = "ack"
             /\ tcp'.host_port = hp
             /\ \E w \in WorkerIds :
                   workers[w].host_port = hp /\ tcp'.key = w
      ]_vars

\* C19: no WorkerState is removed, none leaves the status dead or changes
\* its endpoint, and the worker ids are 0, 1, 2, .. in the order of
\* registration, each new worker being alive.
C19_Registry ==
    [][/\ DOMAIN workers \subseteq DOMAIN workers'
       /\ \A w \in WorkerIds :
             /\ workers[w].status = "dead" => workers'[w].status = "dead"
             /\ workers'[w].host_port = workers[w].host_port
       /\ DOMAIN workers' = 0..(next_worker_id' - 1)
       /\ \A w \in DOMAIN workers' \ DOMAIN workers :
             /\ w = next_worker_id
             /\ next_worker_id' = w + 1
             /\ workers'[w].status = "alive"
             /\ workers'[w].active_jobs = <<>>
      ]_vars

\* Both workers were registered, were marked dead and are still in the
\* registry under the ids 0 and 1.
C19_Witness ==
    /\ next_worker_id = 2
    /\ workers[0].status = "dead"
    /\ workers[1].status = "dead"
    /\ now = MaxTime

\* C20: a new_convertor from the endpoint of a worker that is marked dead
\* makes a new alive WorkerState under a new worker id, which is
\* acknowledged to the worker.
C20_ReRegister ==
    [][\A hp \in Endpoints :
          /\ RegisterWorker(hp)
          /\ \E w \in WorkerIds :
                workers[w].host_port = hp /\ workers[w].status = "dead"
          => /\ next_worker_id' = next_worker_id + 1
             /\ workers'[next_worker_id].status = "alive"
             /\ workers'[next_worker_id].host_port = hp
             /\ tcp'.pc = "ack"
             /\ tcp'.key = next_worker_id
      ]_vars


\* C21: a worker listed by new_batch gets the new_batch message of batch B
\* before any new_job of batch B: no new_job of batch B is sent to it while
\* the thread that called new_batch has the broadcast of B still to do.
C21_BroadcastFirst ==
    [][\A m \in received' \ received : \A d \in DOMAIN caller :
          ~(/\ caller[d].pc = "nb_send"
            /\ caller[d].batch_id = m.batch_id
            /\ workers[m.worker_id].host_port \in caller[d].workers)]_vars


C23_OnlyPriorDiscarded ==
    [][/\ loop.pc = "drain"
       /\ server.job_queue # <<>>
       /\ server'.job_queue = Tail(server.job_queue)
       => ~(/\ Head(server.job_queue).type = "new_job"
            /\ Head(server.job_queue).batch_id >= loop.msg.batch_id)]_vars

\* C24: a new_batch that reaches the worker while it works on a job of the
\* batch before aborts that job: the worker sends no images_ready for a
\* job when its batch id is no longer the one read at the start of the job.
C24_AbortedBySwitch ==
    [][\A m \in outbox' \ outbox :
          m.type = "images_ready" => server.batch_id = loop.batch_id]_vars

\* C25: when an event was set by the time the conversion ended, the worker
\* sends neither images_ready nor job_error for the job.
C25_SilentWhenStopped ==
    [][outbox' # outbox => ~loop.stopped]_vars


\* C26: the dispatcher drops a message whose header claims a version other
\* than 1, whatever its type: handling it changes neither the workers, the
\* jobs, the batch counters, the result queue nor what the TCP thread is
\* about to send or put.
C26_VersionDropped ==
    [][\A h \in Headers :
          ~ValidVersion(h) /\ HandleConnection(h) =>
             UNCHANGED <<workers, next_worker_id, jobs, batch, tcp>>]_vars


\* C27: framing round trip: what _handle_connection reads from a connection
\* send_file_tcp wrote to is the header sent and a payload of byte_length
\* bytes equal to the file sent, however the stream is cut into chunks;
\* reading fails only when the sender closed before the whole frame was out.
C27_RoundTrip ==
    /\ wire.pc = "done" =>
          /\ wire.header = wire.H
          /\ wire.payload = wire.P
          /\ Len(wire.payload) = wire.header.byte_length
          /\ wire.pos = Len(Frame(wire.H, wire.P))
    /\ wire.pc = "failed" =>
          wire.closed /\ wire.sent < Len(Frame(wire.H, wire.P))

\* A file of ten bytes that read like header characters came through
\* although some recv returned less than was missing.
C27_Witness ==
    /\ wire.pc = "done"
    /\ wire.split
    /\ Len(wire.P) = 10
    /\ wire.P[3] = 123


DispatcherDown ==
    threads.tcp = "exited" /\ threads.udp = "exited"
        /\ threads.monitor = "exited"

WorkerDown ==
    handler.pc = "exited" /\ threads.heartbeat = "exited"
        /\ loop.pc = "exited"

\* C28: a shutdown event that is set is never cleared, and once it is set
\* every loop polling it exits: the dispatcher's TCP listener, UDP listener
\* and liveness monitor, the worker's TCP listener, heartbeat emitter and
\* job loop; a job loop that saw the event set takes no further step.
C28_Shutdown ==
    /\ [][/\ threads.shutdown_event => threads'.shutdown_event
          /\ server.shutdown => server'.shutdown
          /\ loop.pc = "exited" => loop' = loop]_vars
    /\ threads.shutdown_event ~> DispatcherDown
    /\ server.shutdown ~> WorkerDown

\* Both sides are down, and the worker left a new_job on its queue.
C28_Witness ==
    /\ DispatcherDown
    /\ WorkerDown
    /\ server.job_queue # <<>>
    /\ Head(server.job_queue).type = "new_job"


\* C29: within one batch no two submitted jobs share a job id: a call of
\* start_job that dispatches a job gives it an id no record of the batch
\* has yet.
C29_FreshJobId ==
    [][\A c \in DOMAIN caller :
          caller[c].pc = "idle" /\ caller'[c].pc = "sj_send" =>
             caller'[c].job_id \notin DOMAIN jobs]_vars


\* C30: path-traversal defense: extracting a ZIP whose entry is
\* `../evil.png` returns the empty list, and no file is ever written
\* outside the destination directory.
C30_TraversalRejected ==
    /\ archive.pc # "none" =>
          \A path \in archive.written :
             /\ Len(path) > Len(DestDir)
             /\ SubSeq(path, 1, Len(DestDir)) = DestDir
             /\ \A k \in 1..Len(path) : path[k] \notin {".", ".."}
    /\ archive.pc = "returned" /\ archive.entries = <<Traversal>> =>
          archive.extracted = <<>>


\* C31: the worker's batch switch is monotone: a step never lowers the
\* worker's batch id, and when the job loop has applied a queued new_batch
\* message the worker's batch id is the largest one its TCP thread has
\* received.
C31_MonotoneSwitch ==
    [][/\ server'.batch_id >= server.batch_id
       /\ loop.pc = "switch" /\ loop'.pc = "set" =>
             server'.batch_id = handler.seen]_vars


\* C32: a job of the current batch that a job_error has marked `error` is
\* never dispatched again by the liveness monitor.
C32_ErrorNotRetried ==
    [][mon.pc = "reassign" /\ mon'.pc = "mon_send" =>
         ~ (/\ Head(mon.todo).job_id \in DOMAIN jobs
            /\ jobs[Head(mon.todo).job_id].status = "error"
            /\ jobs[Head(mon.todo).job_id].batch_id = batch_id)]_vars


\* C33: a dispatcher thread that holds the registry lock is never about to
\* send on TCP and never about to take the lock again, and whenever some
\* thread is inside a method, some thread inside a method can go on: the
\* threads do not deadlock on the lock.
C33_NoSendUnderLock ==
    /\ \A t \in LockThreads :
          lock.holder = t /\ lock.todo[t] # <<>> =>
              Head(lock.todo[t]) \notin {"send", "acquire"}
    /\ (\E t \in LockThreads : lock.todo[t] # <<>>) =>
          \E t \in LockThreads :
              /\ lock.todo[t] # <<>>
              /\ Head(lock.todo[t]) = "acquire" => lock.holder = "none"

\* The monitor is about to send a reassigned job while the API thread is
\* inside a lock section and the TCP thread waits for the lock.
C33_Witness ==
    /\ lock.holder = "api"
    /\ lock.todo["monitor"] # <<>> /\ Head(lock.todo["monitor"]) = "send"
    /\ lock.todo["tcp"] # <<>> /\ Head(lock.todo["tcp"]) = "acquire"


\* C34: every images_ready or job_error the worker sends for a job carries
\* the batch_id of the new_job message the job loop took from the queue.
C34_ReplyBatch ==
    [][\A m \in outbox' \ outbox : m.batch_id = loop.msg.batch_id]_vars


\* C35: every job a pass of the liveness monitor puts on its list to
\* dispatch again is recorded as running on a worker this pass marks dead.
C35_OnlyOfTheDead ==
    [][MonitorPass =>
         \A i \in 1..Len(mon'.todo) :
            \E w \in WorkerIds :
               Dies(w) /\ OnWorker(mon'.todo[i].job_id, w)]_vars


\* C36: when the monitor's start_job dispatches a job from its list, the
\* record it writes and the message it is going to send carry the batch id
\* the job had when the monitor collected it.
C36_BatchOfTheJob ==
    [][mon.pc = "reassign" /\ mon'.pc = "mon_send" =>
         /\ jobs'[mon'.job_id].batch_id = Head(mon.todo).batch_id
         /\ mon'.batch_id = Head(mon.todo).batch_id]_vars


\* C37: the step of new_batch that makes the new batch current leaves
\* every registered worker without active jobs.
C37_NoActiveJobs ==
    [][batch_id' # batch_id =>
         \A w \in WorkerIds : workers'[w].active_jobs = <<>>]_vars


\* C38: the completed counter counts only results of the current batch:
\* when get_next_result comes to its increment with a result of another
\* batch than the current one, the counter stays as it is.
C38_CountsCurrentBatch ==
    [][\A c \in Callers :
          /\ caller[c].pc = "gnr_inc" /\ caller'[c].pc = "idle"
          /\ caller[c].res.batch_id # batch_id
          => completed_jobs' = completed_jobs]_vars


\* C39: while total is the number of jobs dispatched in the batch and the
\* batch counts as complete (total > 0 and completed >= total), no job of
\* the batch is still running: each has been marked done or error, which a
\* handler does before it puts the job's result on the queue.
C39_CompleteMeansAnswered ==
    /\ total_jobs > 0
    /\ completed_jobs >= total_jobs
    /\ total_jobs = Cardinality(DOMAIN jobs)
    => \A j \in DOMAIN jobs : jobs[j].status # "running"


\* C40: when the dispatcher has handled a heartbeat of an alive worker, the
\* worker is not due at the time of handling, whatever time the heartbeat
\* carries: a pass of the liveness monitor, which marks dead the workers
\* with now - last_heartbeat >= heartbeat_timeout, does not mark it dead
\* before heartbeat_timeout has gone by since the handling.
C40_NotDueWhenHandled ==
    [][\A w \in WorkerIds, t \in 0..MaxTime :
          HandleHeartbeat(w, t) /\ workers[w].status = "alive" =>
             now - workers'[w].last_heartbeat < HeartbeatTimeout]_vars

====
